---- MODULE Spec2Model ----
(***************************************************************************)
(* Alarm_Shooter: the simulation engine of src/game/game.rs (duplicated in *)
(* src/lib.rs) and the frame/reset glue of src/app.rs.                     *)
(*                                                                         *)
(* Coordinates are f64 in the source.  Every value the engine computes     *)
(* from its own constants (5.0, 7.0, 50.0, 300.0, 550.0 ...) is an exact   *)
(* integer, so positions are modelled as integers; the two random draws of *)
(* spawn_enemy (x in [0,750), speed in [2,5)) are inputs drawn from        *)
(* EnemyXs and EnemySpeeds.  Indices of Vec are 0-based as in the source;  *)
(* sequences are 1-based, so element i of a Vec is seq[i + 1].             *)
(*                                                                         *)
(* A panic (Vec::remove out of range) aborts the wasm call: the RefCell    *)
(* stays mutably borrowed, so every later handler traps in borrow_mut()    *)
(* before it touches the game.  `panicked` records it; the game fields     *)
(* keep the values they had when the panic was raised.                     *)
(***************************************************************************)
EXTENDS Integers, Sequences, FiniteSets, TLC

VARIABLES
    player,             \* Game.player: [x, y]
    bullets,            \* Game.bullets: Vec<Bullet>, each [x, y]
    enemies,            \* Game.enemies: Vec<Enemy>, each [x, y, speed]
    last_enemy_spawn,   \* Game.last_enemy_spawn
    last_frame_time,    \* Game.last_frame_time
    score,              \* Game.score
    lives,              \* Game.lives
    state,              \* Game.state: "Playing" | "GameOver"
    keys_pressed,       \* Game.keys_pressed: Vec<String>
    pending,            \* animation-frame callbacks requested and not yet run
    batch,              \* callbacks of the refresh in progress that have yet to run
    panicked,           \* a handler panicked (see above)
    ticked,             \* render_frame has run since Game::new / reset()
    frame_count,        \* render_frame runs explored so far (bounded by MaxFrames)
    spawned_at,         \* timestamp of the last spawn since Game::new / reset(), 0 if none
    obs                 \* the last handler: which it was, and what render_frame saw

vars == <<player, bullets, enemies, last_enemy_spawn, last_frame_time, score, lives,
          state, keys_pressed, pending, batch, panicked, ticked, frame_count, spawned_at,
          obs>>

(***************************************************************************)
(* Bounds of the exploration.                                              *)
(***************************************************************************)
MaxFrames == 2
MaxBullets == 2
MaxEnemies == 3
MaxPending == 2
MaxHeld == 2

(***************************************************************************)
(* Inputs.                                                                 *)
(***************************************************************************)
\* keys delivered by keydown / keyup events
Keys == {" ", "ArrowLeft"}
\* time between the timestamps of two refreshes, in ms (0: the timestamp did
\* not advance, as under reduced timer precision)
Deltas == {0, 2001}
\* the draws of spawn_enemy: random() * 750 and 2.0 + random() * 3.0
EnemyXs == {300, 335}
EnemySpeeds == {2, 4}

(***************************************************************************)
(* Program constants.                                                      *)
(***************************************************************************)
PlayfieldWidth == 800
PlayfieldHeight == 600
PlayerWidth == 50
PlayerHeight == 50
PlayerSpeed == 5
PlayerStartX == 300
PlayerStartY == 550
BulletRadius == 5
BulletSpeed == 7
EnemyWidth == 50
EnemyHeight == 50
SpawnInterval == 2000
StartLives == 3

(***************************************************************************)
(* Helpers.                                                                *)
(***************************************************************************)
\* Vec::contains
Contains(v, k) == \E i \in 1..Len(v) : v[i] = k

\* Vec::remove(idx), idx 0-based and in range
VecRemove(v, idx) == [i \in 1..(Len(v) - 1) |-> IF i <= idx THEN v[i] ELSE v[i + 1]]

\* the subtraction without its floor (lives as a signed integer)
plain_sub(a, b) == a - b

\* u32::saturating_sub
saturating_sub(a, b) == IF a >= b THEN a - b ELSE 0

\* the indices of a set in descending order
RECURSIVE Descending(_)
Descending(S) ==
    IF S = {} THEN <<>>
    ELSE LET m == CHOOSE x \in S : \A y \in S : y <= x
         IN  <<m>> \o Descending(S \ {m})

\* the indices of a set in ascending order
RECURSIVE Ascending(_)
Ascending(S) ==
    IF S = {} THEN <<>>
    ELSE LET m == CHOOSE x \in S : \A y \in S : x <= y
         IN  <<m>> \o Ascending(S \ {m})

\* the indices removed front to back (iter() without rev())
RemovalOrderForward(S) == Ascending(S)

\* sort_unstable(); dedup(); then iter().rev(): the order in which indices are removed
RemovalOrder(S) == Descending(S)

\* `for &idx in order { v.remove(idx) }`: the Vec after the loop, and whether
\* every remove was in range (the loop stops at the first that is not: it panics)
RECURSIVE RemoveAll(_, _)
RemoveAll(v, order) ==
    IF order = <<>> THEN [list |-> v, ok |-> TRUE]
    ELSE IF Head(order) >= Len(v) THEN [list |-> v, ok |-> FALSE]
    ELSE RemoveAll(VecRemove(v, Head(order)), Tail(order))

Range(v) == {v[i] : i \in 1..Len(v)}


(***************************************************************************)
(* Game                                                                    *)
(***************************************************************************)
\* key == " " || key == "Space"
IsFireKey(key) == key = " " \/ key = "Space"

\* the Bullet built by fire_bullet: x = player.x + width / 2 - 5, y = player.y
fire_bullet(p, bs) == Append(bs, [x |-> p.x + PlayerWidth \div 2 - 5, y |-> p.y])

\* the Enemy pushed by spawn_enemy, ex and es being its two random draws
spawn_enemy(es, ex, espeed) == Append(es, [x |-> ex, y |-> 0, speed |-> espeed])

\* update_enemies without its retain(): enemies below the playfield stay
update_enemies_no_cull(es) ==
    [i \in 1..Len(es) |-> [es[i] EXCEPT !.y = @ + es[i].speed]]

\* update_enemies: move every enemy down by its speed, retain those with y <= 600
update_enemies(es) ==
    LET moved == [i \in 1..Len(es) |-> [es[i] EXCEPT !.y = @ + es[i].speed]]
        keep(e) == e.y <= PlayfieldHeight
    IN  SelectSeq(moved, keep)

\* the bullet step without its retain(): bullets above the playfield stay
update_bullets_no_cull(bs) ==
    [i \in 1..Len(bs) |-> [bs[i] EXCEPT !.y = @ - BulletSpeed]]

\* the bullet step firing as well while a fire key is held (level-triggered)
update_bullets_level(bs) ==
    LET moved == [i \in 1..Len(bs) |-> [bs[i] EXCEPT !.y = @ - BulletSpeed]]
        keep(b) == b.y >= 0
        kept == SelectSeq(moved, keep)
    IN  IF Contains(keys_pressed, " ") \/ Contains(keys_pressed, "Space")
        THEN fire_bullet(player, kept) ELSE kept

\* render_frame, bullets: move every bullet up by its speed, retain those with y >= 0
update_bullets(bs) ==
    LET moved == [i \in 1..Len(bs) |-> [bs[i] EXCEPT !.y = @ - BulletSpeed]]
        keep(b) == b.y >= 0
    IN  SelectSeq(moved, keep)

\* the four movement blocks without their clamps
move_player_no_clamp(p, keys) ==
    LET x1 == IF Contains(keys, "ArrowLeft") \/ Contains(keys, "a")
              THEN p.x - PlayerSpeed ELSE p.x
        x2 == IF Contains(keys, "ArrowRight") \/ Contains(keys, "d")
              THEN x1 + PlayerSpeed ELSE x1
        y1 == IF Contains(keys, "ArrowUp") \/ Contains(keys, "w")
              THEN p.y - PlayerSpeed ELSE p.y
        y2 == IF Contains(keys, "ArrowDown") \/ Contains(keys, "s")
              THEN y1 + PlayerSpeed ELSE y1
    IN  [x |-> x2, y |-> y2]

\* the movement blocks run once for every held key of their direction
move_player_per_key(p, keys) ==
    LET left(x) == IF x - PlayerSpeed < 0 THEN 0 ELSE x - PlayerSpeed
        right(x) == IF x + PlayerSpeed + PlayerWidth > PlayfieldWidth
                    THEN PlayfieldWidth - PlayerWidth ELSE x + PlayerSpeed
        up(y) == IF y - PlayerSpeed < 0 THEN 0 ELSE y - PlayerSpeed
        down(y) == IF y + PlayerSpeed + PlayerHeight > PlayfieldHeight
                   THEN PlayfieldHeight - PlayerHeight ELSE y + PlayerSpeed
        x1 == IF Contains(keys, "ArrowLeft") THEN left(p.x) ELSE p.x
        x2 == IF Contains(keys, "a") THEN left(x1) ELSE x1
        x3 == IF Contains(keys, "ArrowRight") THEN right(x2) ELSE x2
        x4 == IF Contains(keys, "d") THEN right(x3) ELSE x3
        y1 == IF Contains(keys, "ArrowUp") THEN up(p.y) ELSE p.y
        y2 == IF Contains(keys, "w") THEN up(y1) ELSE y1
        y3 == IF Contains(keys, "ArrowDown") THEN down(y2) ELSE y2
        y4 == IF Contains(keys, "s") THEN down(y3) ELSE y3
    IN  [x |-> x4, y |-> y4]

\* render_frame, player: the four movement blocks, in the order of the source
move_player(p, keys) ==
    LET x1 == IF Contains(keys, "ArrowLeft") \/ Contains(keys, "a")
              THEN (IF p.x - PlayerSpeed < 0 THEN 0 ELSE p.x - PlayerSpeed)
              ELSE p.x
        x2 == IF Contains(keys, "ArrowRight") \/ Contains(keys, "d")
              THEN (IF x1 + PlayerSpeed + PlayerWidth > PlayfieldWidth
                    THEN PlayfieldWidth - PlayerWidth ELSE x1 + PlayerSpeed)
              ELSE x1
        y1 == IF Contains(keys, "ArrowUp") \/ Contains(keys, "w")
              THEN (IF p.y - PlayerSpeed < 0 THEN 0 ELSE p.y - PlayerSpeed)
              ELSE p.y
        y2 == IF Contains(keys, "ArrowDown") \/ Contains(keys, "s")
              THEN (IF y1 + PlayerSpeed + PlayerHeight > PlayfieldHeight
                    THEN PlayfieldHeight - PlayerHeight ELSE y1 + PlayerSpeed)
              ELSE y1
    IN  [x |-> x2, y |-> y2]

\* the bullet / enemy overlap test of check_collisions (the bullet as a box of side 2 * radius)
BulletHitsEnemy(b, e) ==
    /\ b.x < e.x + EnemyWidth
    /\ b.x + BulletRadius * 2 > e.x
    /\ b.y < e.y + EnemyHeight
    /\ b.y + BulletRadius * 2 > e.y

\* the player / enemy overlap test of check_collisions
PlayerHitsEnemy(p, e) ==
    /\ p.x < e.x + EnemyWidth
    /\ p.x + PlayerWidth > e.x
    /\ p.y < e.y + EnemyHeight
    /\ p.y + PlayerHeight > e.y

\* the spawn timer left at its value, never seeded
SeedSpawnTimerNever(last, t) == last

\* the first render_frame after Game::new / reset() seeds the spawn timer
SeedSpawnTimer(last, t) == IF last = 0 THEN t ELSE last

\* check_collisions with the player sweep run over the bullets as well: a bullet
\* inside the player's box costs a life like an enemy
check_collisions_own_bullets(p, bs, es, sc, lv, st) ==
    LET pairs == {h \in (0..(Len(bs) - 1)) \X (0..(Len(es) - 1)) :
                     BulletHitsEnemy(bs[h[1] + 1], es[h[2] + 1])}
        bullets_to_remove == {h[1] : h \in pairs}
        enemies_to_remove == {h[2] : h \in pairs}
        score1 == sc + Cardinality(pairs)
        enemies_to_remove_on_collision ==
            {e \in 0..(Len(es) - 1) : PlayerHitsEnemy(p, es[e + 1])}
        own == {b \in 0..(Len(bs) - 1) :
                   /\ p.x < bs[b + 1].x + BulletRadius * 2
                   /\ p.x + PlayerWidth > bs[b + 1].x
                   /\ p.y < bs[b + 1].y + BulletRadius * 2
                   /\ p.y + PlayerHeight > bs[b + 1].y}
        lives1 == saturating_sub(lv, Cardinality(enemies_to_remove_on_collision)
                                       + Cardinality(own))
        rb == RemoveAll(bs, RemovalOrder(bullets_to_remove))
        re1 == IF rb.ok
               THEN RemoveAll(es, RemovalOrder(enemies_to_remove))
               ELSE [list |-> es, ok |-> FALSE]
        re2 == IF re1.ok
               THEN RemoveAll(re1.list, RemovalOrder(enemies_to_remove_on_collision))
               ELSE re1
    IN  [bullets  |-> rb.list,
         enemies  |-> re2.list,
         score    |-> score1,
         lives    |-> lives1,
         state    |-> IF re2.ok /\ lives1 = 0 THEN "GameOver" ELSE st,
         panicked |-> ~re2.ok,
         pairs    |-> pairs,
         bullets_to_remove |-> bullets_to_remove,
         enemies_to_remove |-> enemies_to_remove,
         enemies_to_remove_on_collision |-> enemies_to_remove_on_collision]

\* check_collisions: the fields of the game it leaves, whether it panicked, and
\* its three index lists (as sets: each is sorted and deduplicated before use)
check_collisions(p, bs, es, sc, lv, st) ==
    LET \* every overlapping (bullet, enemy) pair, 0-based
        pairs == {h \in (0..(Len(bs) - 1)) \X (0..(Len(es) - 1)) :
                     BulletHitsEnemy(bs[h[1] + 1], es[h[2] + 1])}
        bullets_to_remove == {h[1] : h \in pairs}
        enemies_to_remove == {h[2] : h \in pairs}
        \* self.score += 1, once per pair
        score1 == sc + Cardinality(pairs)
        enemies_to_remove_on_collision ==
            {e \in 0..(Len(es) - 1) : PlayerHitsEnemy(p, es[e + 1])}
        \* self.lives = self.lives.saturating_sub(1), once per enemy on the player
        lives1 == saturating_sub(lv, Cardinality(enemies_to_remove_on_collision))
        rb == RemoveAll(bs, RemovalOrder(bullets_to_remove))
        re1 == IF rb.ok
               THEN RemoveAll(es, RemovalOrder(enemies_to_remove))
               ELSE [list |-> es, ok |-> FALSE]
        re2 == IF re1.ok
               THEN RemoveAll(re1.list, RemovalOrder(enemies_to_remove_on_collision))
               ELSE re1
    IN  [bullets  |-> rb.list,
         enemies  |-> re2.list,
         score    |-> score1,
         lives    |-> lives1,
         \* if self.lives == 0 { self.state = GameOver }, reached only without a panic
         state    |-> IF re2.ok /\ lives1 = 0 THEN "GameOver" ELSE st,
         panicked |-> ~re2.ok,
         pairs    |-> pairs,
         bullets_to_remove |-> bullets_to_remove,
         enemies_to_remove |-> enemies_to_remove,
         enemies_to_remove_on_collision |-> enemies_to_remove_on_collision]

\* the closure running render_frame whatever the state
FrameRunsAlways(st) == st \in {"Playing", "GameOver"}

\* the closure of Game::start runs render_frame only while Playing
FrameRuns(st) == st = "Playing"

\* the closure of Game::start requests the next animation frame only while Playing
Reschedules(st) == st = "Playing"

\* obs after a handler that did not run render_frame
ObsNone ==
    [op |-> "", key |-> "", held |-> FALSE,
     ran |-> FALSE, skipped |-> FALSE, first |-> FALSE, spawned |-> 0,
     pre_player |-> [x |-> 0, y |-> 0], culled_bullets |-> 0, culled_enemies |-> 0,
     pre_bullets |-> <<>>, pre_enemies |-> <<>>, pairs |-> {},
     bullets_to_remove |-> {}, enemies_to_remove |-> {},
     enemies_to_remove_on_collision |-> {}]

\* obs after a key handler: nothing, or (when `log`) the handler, its key and
\* whether the key was held before
ObsKey(log, op, key) ==
    IF log THEN [ObsNone EXCEPT !.op = op, !.key = key,
                                !.held = Contains(keys_pressed, key)]
    ELSE ObsNone

(***************************************************************************)
(* Initial states.  InitNew is start_game: Game::new followed by the first *)
(* Game::start.  The snapshots are states of a running session from which  *)
(* enemies meet the player within a few frames.  Both start with a first   *)
(* frame at 16 ms and 98 more frames 16 ms apart with "ArrowUp" held       *)
(* (y = 550 - 98 * 5), the key then released.                              *)
(*   SnapshotEnemy  the frame at 3585 ms spawned an enemy at x = 300 with  *)
(*                  speed 2, the frame at 5586 ms another at x = 335 with  *)
(*                  speed 4.                                               *)
(*   SnapshotHit    the enemies spawned by the frames at 3585 and 5586 ms  *)
(*                  reached the player one after the other (lives 3 -> 1); *)
(*                  the frame at 7587 ms spawned a third at x = 300 with   *)
(*                  speed 4 and the frame at 7603 ms moved it to y = 8.    *)
(*   SnapshotHitLate  SnapshotHit one frame earlier: the frame at 7587 ms  *)
(*                  has just spawned the third enemy and moved it to y = 4 *)
(*                  (it reaches the player on the second tick from here).  *)
(* `loops` is the number of frame loops running: 1 after start_game, 2     *)
(* when reset_game was called once while Playing before those frames.      *)
(***************************************************************************)
SnapshotEnemy == [player |-> [x |-> 300, y |-> 60], lives |-> 3,
                  enemies |-> <<[x |-> 300, y |-> 4, speed |-> 2],
                                [x |-> 335, y |-> 4, speed |-> 4]>>,
                  last_enemy_spawn |-> 5586, last_frame_time |-> 5586,
                  spawned_at |-> 5586]
SnapshotHit == [player |-> [x |-> 300, y |-> 60], lives |-> 1,
                enemies |-> <<[x |-> 300, y |-> 8, speed |-> 4]>>,
                last_enemy_spawn |-> 7587, last_frame_time |-> 7603,
                spawned_at |-> 7587]

SnapshotHitLate == [player |-> [x |-> 300, y |-> 60], lives |-> 1,
                    enemies |-> <<[x |-> 300, y |-> 4, speed |-> 4]>>,
                    last_enemy_spawn |-> 7587, last_frame_time |-> 7587,
                    spawned_at |-> 7587]

InitNew ==
    /\ player = [x |-> PlayerStartX, y |-> PlayerStartY]
    /\ bullets = <<>>
    /\ enemies = <<>>
    /\ last_enemy_spawn = 0
    /\ last_frame_time = 0
    /\ score = 0
    /\ lives = StartLives
    /\ state = "Playing"
    /\ keys_pressed = <<>>
    /\ pending = 1
    /\ batch = 0
    /\ panicked = FALSE
    /\ ticked = FALSE
    /\ frame_count = 0
    /\ spawned_at = 0
    /\ obs = ObsNone

InitSnapshot(snap, loops) ==
    /\ player = snap.player
    /\ bullets = <<>>
    /\ enemies = snap.enemies
    /\ last_enemy_spawn = snap.last_enemy_spawn
    /\ last_frame_time = snap.last_frame_time
    /\ score = 0
    /\ lives = snap.lives
    /\ state = "Playing"
    /\ keys_pressed = <<>>
    /\ pending = loops
    /\ batch = 0
    /\ panicked = FALSE
    /\ ticked = TRUE
    /\ frame_count = 0
    /\ spawned_at = snap.spawned_at
    /\ obs = ObsNone

InitLoops ==
    \/ InitSnapshot(SnapshotHit, 2)
    \/ InitSnapshot(SnapshotEnemy, 2)
    \/ InitSnapshot(SnapshotHitLate, 2)

Init == InitNew \/ InitSnapshot(SnapshotHit, 1) \/ InitSnapshot(SnapshotEnemy, 1)

(***************************************************************************)
(* Handlers                                                                *)
(***************************************************************************)
\* key_down pushing the key whether or not it is already held
push_key_always(keys, key) == Append(keys, key)

\* key_down, held set: `if !self.keys_pressed.contains(&key) { push }`
push_key(keys, key) == IF ~Contains(keys, key) THEN Append(keys, key) ELSE keys

\* key_up removing the first held key whatever it is
remove_key_front(keys, key) == IF keys # <<>> THEN VecRemove(keys, 0) ELSE keys

\* key_up, held set: `if let Some(pos) = position(|x| *x == key) { remove(pos) }`
remove_key(keys, key) ==
    IF Contains(keys, key)
    THEN VecRemove(keys, (CHOOSE i \in 1..Len(keys) :
                             /\ keys[i] = key
                             /\ \A j \in 1..(i - 1) : keys[j] # key) - 1)
    ELSE keys

\* keydown listener: Game::key_down(key); `log` records the call in obs
key_down(key, log) ==
    /\ ~panicked
    /\ batch = 0
    /\ IsFireKey(key) => Len(bullets) < MaxBullets
    /\ keys_pressed' = push_key(keys_pressed, key)
    /\ bullets' = IF IsFireKey(key) THEN fire_bullet(player, bullets) ELSE bullets
    /\ obs' = ObsKey(log, "key_down", key)
    /\ UNCHANGED <<player, enemies, last_enemy_spawn, last_frame_time, score, lives,
                   state, pending, batch, panicked, ticked, frame_count, spawned_at>>

\* keyup listener: Game::key_up(key); `log` records the call in obs
key_up(key, log) ==
    /\ ~panicked
    /\ batch = 0
    /\ keys_pressed' = remove_key(keys_pressed, key)
    /\ obs' = ObsKey(log, "key_up", key)
    /\ UNCHANGED <<player, bullets, enemies, last_enemy_spawn, last_frame_time, score,
                   lives, state, pending, batch, panicked, ticked, frame_count,
                   spawned_at>>

\* the spawn test passing already at the interval
SpawnDueAtInterval(t, last) == t - last >= SpawnInterval

\* render_frame, spawn test: current_time - self.last_enemy_spawn > self.enemy_spawn_interval
SpawnDue(t, last) == t - last > SpawnInterval

\* Game::render_frame(current_time), ex and espeed being the draws of spawn_enemy
render_frame(t, ex, espeed) ==
    LET seeded == SeedSpawnTimer(last_enemy_spawn, t)
        spawns == SpawnDue(t, seeded)
        es0 == IF spawns THEN spawn_enemy(enemies, ex, espeed) ELSE enemies
        p1 == move_player(player, keys_pressed)
        bs1 == update_bullets(bullets)
        es1 == update_enemies(es0)
        c == check_collisions(p1, bs1, es1, score, lives, state)
    IN  /\ spawns => Len(enemies) < MaxEnemies
        /\ last_enemy_spawn' = IF spawns THEN t ELSE seeded
        /\ spawned_at' = IF spawns THEN t ELSE spawned_at
        /\ last_frame_time' = t
        /\ player' = p1
        /\ bullets' = c.bullets
        /\ enemies' = c.enemies
        /\ score' = c.score
        /\ lives' = c.lives
        /\ state' = c.state
        /\ panicked' = c.panicked
        /\ obs' = [op |-> "", key |-> "", held |-> FALSE,
                   ran |-> TRUE, skipped |-> FALSE, first |-> ~ticked,
                   spawned |-> Len(es0) - Len(enemies),
                   pre_player |-> player,
                   culled_bullets |-> Len(bullets) - Len(bs1),
                   culled_enemies |-> Len(es0) - Len(es1),
                   pre_bullets |-> bs1, pre_enemies |-> es1, pairs |-> c.pairs,
                   bullets_to_remove |-> c.bullets_to_remove,
                   enemies_to_remove |-> c.enemies_to_remove,
                   enemies_to_remove_on_collision |-> c.enemies_to_remove_on_collision]

\* one animation-frame callback, the closure built by Game::start.  The browser
\* runs the callbacks requested before a refresh one after the other, with the
\* timestamp of the refresh and with no event handler in between; a callback
\* requested by one of them runs at the next refresh.  The first callback of a
\* refresh takes the last timestamp plus a value of `deltas`; `bounded` counts
\* the run in frame_count
Frame(deltas, bounded) ==
    /\ ~panicked
    /\ pending > 0
    /\ IF FrameRuns(state)
       THEN /\ bounded => frame_count < MaxFrames
            /\ \E dt \in (IF batch > 0 THEN {0} ELSE deltas),
                  ex \in EnemyXs, espeed \in EnemySpeeds :
                   render_frame(last_frame_time + dt, ex, espeed)
            /\ frame_count' = IF bounded THEN frame_count + 1 ELSE frame_count
            /\ ticked' = TRUE
            /\ UNCHANGED keys_pressed
       ELSE /\ obs' = [ObsNone EXCEPT !.skipped = TRUE]
            /\ UNCHANGED <<player, bullets, enemies, last_enemy_spawn, last_frame_time,
                           score, lives, state, keys_pressed, panicked, ticked,
                           frame_count, spawned_at>>
    /\ pending' = IF ~panicked' /\ Reschedules(state') THEN pending ELSE pending - 1
    /\ batch' = (IF batch > 0 THEN batch ELSE pending) - 1

FrameCallback == Frame(Deltas, TRUE)

\* reset() leaving lives as it is
reset_keeps_lives(g) ==
    [player |-> [x |-> PlayerStartX, y |-> PlayerStartY], bullets |-> <<>>,
     enemies |-> <<>>, last_enemy_spawn |-> 0, score |-> 0, lives |-> g.lives,
     state |-> "Playing", keys_pressed |-> <<>>]

\* reset() leaving the score as it is
reset_keeps_score(g) ==
    [player |-> [x |-> PlayerStartX, y |-> PlayerStartY], bullets |-> <<>>,
     enemies |-> <<>>, last_enemy_spawn |-> 0, score |-> g.score, lives |-> StartLives,
     state |-> "Playing", keys_pressed |-> <<>>]

\* reset() leaving the held keys as they are
reset_keeps_keys(g) ==
    [player |-> [x |-> PlayerStartX, y |-> PlayerStartY], bullets |-> <<>>,
     enemies |-> <<>>, last_enemy_spawn |-> 0, score |-> 0, lives |-> StartLives,
     state |-> "Playing", keys_pressed |-> g.keys_pressed]

\* Game::reset(): the fields it assigns, g being the game before the call
reset(g) ==
    [player |-> [x |-> PlayerStartX, y |-> PlayerStartY], bullets |-> <<>>,
     enemies |-> <<>>, last_enemy_spawn |-> 0, score |-> 0, lives |-> StartLives,
     state |-> "Playing", keys_pressed |-> <<>>]

\* reset_game: Game::reset() and a further Game::start
reset_game ==
    LET g == reset([player |-> player, bullets |-> bullets, enemies |-> enemies,
                    last_enemy_spawn |-> last_enemy_spawn, score |-> score,
                    lives |-> lives, state |-> state, keys_pressed |-> keys_pressed])
    IN  /\ ~panicked
        /\ batch = 0
        /\ pending < MaxPending
        /\ player' = g.player
        /\ bullets' = g.bullets
        /\ enemies' = g.enemies
        /\ last_enemy_spawn' = g.last_enemy_spawn
        /\ score' = g.score
        /\ lives' = g.lives
        /\ state' = g.state
        /\ keys_pressed' = g.keys_pressed
        /\ pending' = pending + 1
        /\ ticked' = FALSE
        /\ spawned_at' = 0
        /\ obs' = ObsNone
        /\ UNCHANGED <<last_frame_time, batch, panicked, frame_count>>

KeyDown == \E key \in Keys : key_down(key, FALSE)
KeyUp == \E key \in Keys : key_up(key, FALSE)

Next == KeyDown \/ KeyUp \/ FrameCallback \/ reset_game

Spec == Init /\ [][Next]_vars

\* the same program with two frame loops running from the start
SpecLoops == InitLoops /\ [][Next]_vars

(***************************************************************************)
(* The spawner at its threshold: timestamps exactly one interval apart,    *)
(* from a new game and from a session whose last frame spawned an enemy.   *)
(***************************************************************************)
SpawnDeltas == {0, 2000, 2001}
SpawnKeys == {" "}

InitSpawn == InitNew \/ InitSnapshot(SnapshotEnemy, 1)

KeyDownSpawn == \E key \in SpawnKeys : key_down(key, FALSE)
KeyUpSpawn == \E key \in SpawnKeys : key_up(key, FALSE)
FrameSpawn == Frame(SpawnDeltas, TRUE)

NextSpawn == KeyDownSpawn \/ KeyUpSpawn \/ FrameSpawn \/ reset_game

SpecSpawn == InitSpawn /\ [][NextSpawn]_vars

(***************************************************************************)
(* The player at the playfield edges, the four arrow keys held in any      *)
(* combination, frames 16 ms apart.  Both snapshots are sessions whose     *)
(* first frame came at 16 ms and that moved the player into a corner with  *)
(* two arrow keys held (110 frames to the top left, 90 to the bottom       *)
(* right), the keys then released; no enemy has spawned yet.               *)
(***************************************************************************)
SnapshotTopLeft == [player |-> [x |-> 0, y |-> 0], lives |-> 3, enemies |-> <<>>,
                    last_enemy_spawn |-> 16, last_frame_time |-> 1776,
                    spawned_at |-> 0]
SnapshotBottomRight == [player |-> [x |-> 750, y |-> 550], lives |-> 3,
                        enemies |-> <<>>,
                        last_enemy_spawn |-> 16, last_frame_time |-> 1456,
                        spawned_at |-> 0]
MoveDeltas == {16}
MoveKeys == {"ArrowLeft", "ArrowRight", "ArrowUp", "ArrowDown"}

InitMove ==
    \/ InitNew
    \/ InitSnapshot(SnapshotTopLeft, 1)
    \/ InitSnapshot(SnapshotBottomRight, 1)

KeyDownMove == \E key \in MoveKeys : key_down(key, FALSE)
KeyUpMove == \E key \in MoveKeys : key_up(key, FALSE)
FrameMove == Frame(MoveDeltas, TRUE)

NextMove == KeyDownMove \/ KeyUpMove \/ FrameMove

SpecMove == InitMove /\ [][NextMove]_vars

(***************************************************************************)
(* The key handlers, each call recorded in obs: both fire keys and one     *)
(* movement key, pressed again while held and released while not held,     *)
(* frames 16 ms apart, from a new game and from SnapshotHit (whose next    *)
(* frame ends the game).                                                   *)
(***************************************************************************)
KeyDeltas == {16}
LoggedKeys == {" ", "Space", "ArrowLeft"}

InitKeys == InitNew \/ InitSnapshot(SnapshotHit, 1)

KeyDownLogged == \E key \in LoggedKeys : key_down(key, TRUE)
KeyUpLogged == \E key \in LoggedKeys : key_up(key, TRUE)
FrameKeys == Frame(KeyDeltas, TRUE)

NextKeys == KeyDownLogged \/ KeyUpLogged \/ FrameKeys \/ reset_game

SpecKeys == InitKeys /\ [][NextKeys]_vars

(***************************************************************************)
(* Two enemies reaching the player on the same tick.  SnapshotTwoHits is   *)
(* the session of SnapshotHit (lives 3 -> 1) with its third enemy spawned  *)
(* at 7587 ms at x = 300 with speed 2 and moved by the frames at 7603 and  *)
(* 7619 ms; the frame at 9588 ms spawned a fourth at x = 335 with speed 4  *)
(* and the frame at 9604 ms left them at y = 10 and y = 8: the next tick   *)
(* moves both to y = 12, inside the player's box.                          *)
(***************************************************************************)
SnapshotTwoHits == [player |-> [x |-> 300, y |-> 60], lives |-> 1,
                    enemies |-> <<[x |-> 300, y |-> 10, speed |-> 2],
                                  [x |-> 335, y |-> 8, speed |-> 4]>>,
                    last_enemy_spawn |-> 9588, last_frame_time |-> 9604,
                    spawned_at |-> 9588]

InitLives ==
    \/ InitNew
    \/ InitSnapshot(SnapshotHit, 1)
    \/ InitSnapshot(SnapshotTwoHits, 1)

SpecLives == InitLives /\ [][Next]_vars

(***************************************************************************)
(* Entities at the edges they leave the playfield through.                 *)
(*   SnapshotTop     first frame at 16 ms, 110 more frames 16 ms apart     *)
(*                   with "ArrowUp" held: the player is at the top edge,   *)
(*                   where a bullet it fires leaves on the next tick, and  *)
(*                   no enemy has spawned yet.                             *)
(*   SnapshotBottom  first frame at 16 ms with "ArrowLeft" held for 60     *)
(*                   frames; the frame at 2017 ms spawned an enemy at      *)
(*                   x = 335 with speed 2, and 298 frames 4 ms apart moved *)
(*                   it to y = 598: it is at 600 after the next tick and   *)
(*                   below the playfield after the one after.              *)
(***************************************************************************)
SnapshotTop == [player |-> [x |-> 300, y |-> 0], lives |-> 3, enemies |-> <<>>,
                last_enemy_spawn |-> 16, last_frame_time |-> 1776,
                spawned_at |-> 0]
SnapshotBottom == [player |-> [x |-> 0, y |-> 550], lives |-> 3,
                   enemies |-> <<[x |-> 335, y |-> 598, speed |-> 2]>>,
                   last_enemy_spawn |-> 2017, last_frame_time |-> 3209,
                   spawned_at |-> 2017]

InitCull == InitSnapshot(SnapshotTop, 1) \/ InitSnapshot(SnapshotBottom, 1)

SpecCull == InitCull /\ [][Next]_vars

(***************************************************************************)
(* Bullets in flight with no enemy on the playfield, the frame loop        *)
(* running for ever.  SnapshotClear is the session of SnapshotEnemy before *)
(* its first spawn (first frame at 16 ms, 98 more frames with "ArrowUp"    *)
(* held).  The bullet step of render_frame does not read the timestamp, so *)
(* the timestamps stay at that of the snapshot: no enemy ever spawns and   *)
(* the state space is finite without a bound on the number of frames.      *)
(* The closure of Game::start requests the next animation frame at the end *)
(* of every callback while Playing, and the browser runs every requested   *)
(* callback: the frame callback is weakly fair.                            *)
(***************************************************************************)
SnapshotClear == [player |-> [x |-> 300, y |-> 60], lives |-> 3, enemies |-> <<>>,
                  last_enemy_spawn |-> 16, last_frame_time |-> 1584,
                  spawned_at |-> 0]
FireDeltas == {0}
FireKeys == {" ", "Space"}

InitFire == InitSnapshot(SnapshotClear, 1)

KeyDownFire == \E key \in FireKeys : key_down(key, TRUE)
KeyUpFire == \E key \in FireKeys : key_up(key, TRUE)
FrameFire == Frame(FireDeltas, FALSE)

NextFire == KeyDownFire \/ KeyUpFire \/ FrameFire

SpecFire == InitFire /\ [][NextFire]_vars /\ WF_vars(FrameFire)

(***************************************************************************)
(* The eight movement keys, at most MaxHeld of them held at a time, from   *)
(* the start position, from the top left corner and from mid-field         *)
(* (SnapshotClear).                                                        *)
(***************************************************************************)
AliasKeys == {"ArrowLeft", "a", "ArrowRight", "d", "ArrowUp", "w", "ArrowDown", "s"}

InitAlias ==
    \/ InitNew
    \/ InitSnapshot(SnapshotTopLeft, 1)
    \/ InitSnapshot(SnapshotClear, 1)

KeyDownAlias ==
    \E key \in AliasKeys :
        /\ Contains(keys_pressed, key) \/ Len(keys_pressed) < MaxHeld
        /\ key_down(key, FALSE)
KeyUpAlias == \E key \in AliasKeys : key_up(key, FALSE)

NextAlias == KeyDownAlias \/ KeyUpAlias \/ FrameMove

SpecAlias == InitAlias /\ [][NextAlias]_vars

(***************************************************************************)
(* Steps                                                                   *)
(***************************************************************************)
\* this step is reset_game (the only handler that adds a pending callback)
ResetStep == pending' = pending + 1

\* this step is a frame callback that ran render_frame
TickStep == obs'.ran

\* the enemies of the last collision step whose index is in neither removal list
Untouched ==
    LET hit == obs.enemies_to_remove \cup obs.enemies_to_remove_on_collision
        F[i \in 0..Len(obs.pre_enemies)] ==
            IF i = 0 THEN <<>>
            ELSE IF (i - 1) \in hit THEN F[i - 1]
            ELSE Append(F[i - 1], obs.pre_enemies[i])
    IN  F[Len(obs.pre_enemies)]

(***************************************************************************)
(* Claims                                                                  *)
(***************************************************************************)

\* C1: in one collision pass score grows by exactly the number of distinct
\* enemies that overlap at least one bullet (an enemy overlapped by two bullets
\* in the same tick adds 1, not 2).
C1_ScorePerDistinctEnemy ==
    [][(TickStep /\ ~panicked')
          => score' = score + Cardinality(obs'.enemies_to_remove)]_vars

\* C2: check_collisions never removes from the enemy list at an index that is
\* out of range, whatever the two removal lists hold.
C2_NoOutOfRangeRemoval == ~panicked

\* C3: after a tick the remaining enemies are exactly those that, at the
\* collision step, overlapped neither a bullet nor the player.
C3_ExactlyUntouchedRemain ==
    (obs.ran /\ ~panicked) => enemies = Untouched

\* C4: every bullet and every enemy of an overlapping (bullet, enemy) pair of
\* the collision step is absent from the bullet and enemy lists after the tick.
C4_HitPairsAbsent ==
    obs.ran =>
        \A h \in obs.pairs :
            /\ obs.pre_bullets[h[1] + 1] \notin Range(bullets)
            /\ obs.pre_enemies[h[2] + 1] \notin Range(enemies)

\* C4 witness: a tick in which one bullet overlapped two enemies.
C4_Witness ==
    /\ obs.ran
    /\ \E h, g \in obs.pairs : h[1] = g[1] /\ h[2] # g[2]

\* C5: lives is never below 0, and when lives is 0 the state is GameOver (the
\* tick that brings lives to 0 sets GameOver itself).
C5_GameOverOnSameTick == lives >= 0 /\ (lives = 0 => state = "GameOver")

\* C6: while GameOver a frame callback changes none of player, bullets,
\* enemies, score, lives, spawn timer and state, and only reset_game leaves
\* GameOver.
C6_FrameIdleInGameOver ==
    [][ /\ (state = "GameOver" /\ pending' = pending - 1)
            => UNCHANGED <<player, bullets, enemies, score, lives, last_enemy_spawn,
                           state>>
        /\ (state = "GameOver" /\ state' # "GameOver") => ResetStep ]_vars

\* C6 witness: a frame callback has just run while the state was GameOver.
C6_Witness == obs.skipped /\ state = "GameOver" /\ lives = 0

\* C7: once GameOver, no handler other than reset_game changes bullets,
\* enemies, player position, score or lives.
C7_FrozenInGameOver ==
    [][(state = "GameOver" /\ ~ResetStep)
          => UNCHANGED <<bullets, enemies, player, score, lives>>]_vars

\* C8: at most one animation-frame callback is pending at any time.
C8_OneFrameLoop == pending <= 1

\* C9: with a fresh game, a first tick at timestamp 0 spawns nothing and the
\* following tick at timestamp 2001 spawns exactly one enemy.
C9_SpawnAt2001 ==
    [][ /\ (~ticked /\ TickStep /\ last_frame_time' = 0) => obs'.spawned = 0
        /\ (ticked /\ frame_count = 1 /\ last_frame_time = 0 /\ enemies = <<>>
              /\ TickStep /\ last_frame_time' = 2001)
            => (obs'.spawned = 1 /\ Len(obs'.pre_enemies) = 1) ]_vars

\* C10: the first tick after Game::new or reset() spawns no enemy, whatever its
\* timestamp: it seeds last_enemy_spawn to that timestamp and the enemy list
\* stays empty.
C10_FirstTickSeeds ==
    (obs.ran /\ obs.first) =>
        /\ obs.spawned = 0
        /\ last_enemy_spawn = last_frame_time
        /\ obs.pre_enemies = <<>>
        /\ enemies = <<>>

\* C10 witness: a first tick whose timestamp is more than the spawn interval.
C10_Witness == obs.ran /\ obs.first /\ last_frame_time > SpawnInterval

\* C11: a tick adds at most one enemy, and adds one exactly when its timestamp
\* minus last_enemy_spawn (as the spawn test reads it, after the tick's
\* seeding) is greater than 2000; a spawn is more than 2000 ms after the
\* previous spawn since Game::new / reset(), however many ticks lie between.
C11_SpawnSpacing ==
    [][TickStep =>
         LET t == last_frame_time'
             last == IF last_enemy_spawn = 0 THEN t ELSE last_enemy_spawn
         IN  /\ obs'.spawned \in {0, 1}
             /\ Len(obs'.pre_enemies) + obs'.culled_enemies
                    = Len(enemies) + obs'.spawned
             /\ (obs'.spawned = 1) <=> (t - last > 2000)
             /\ (obs'.spawned = 1 /\ spawned_at # 0) => t - spawned_at > 2000]_vars

\* C11 witness: a tick spawned 4000 ms after the previous spawn, the tick in
\* between (2000 ms after that spawn) having spawned nothing.
C11_Witness ==
    /\ obs.ran
    /\ obs.spawned = 1
    /\ spawned_at = SnapshotEnemy.spawned_at + 4000
    /\ frame_count = 2

\* C12: reset(), in any state it is called in (Playing or GameOver), leaves
\* the player at (300, 550), bullets and enemies empty, score 0, lives 3, the
\* state Playing and the held-key set empty.
C12_ResetRestores ==
    [][ResetStep =>
         /\ player' = [x |-> 300, y |-> 550]
         /\ bullets' = <<>>
         /\ enemies' = <<>>
         /\ score' = 0
         /\ lives' = 3
         /\ state' = "Playing"
         /\ keys_pressed' = <<>>]_vars

\* C12 witness: reset_game has just run (under SpecKeys every key handler
\* records itself in obs) on a game that had run frames and was GameOver: no
\* frame callback was pending any more.
C12_Witness ==
    /\ ~ticked
    /\ frame_count > 0
    /\ pending = 1
    /\ state = "Playing"
    /\ lives = 3
    /\ obs = ObsNone

\* the held set holds a key that moves the player left / right / up / down
HeldLeft == Contains(keys_pressed, "ArrowLeft") \/ Contains(keys_pressed, "a")
HeldRight == Contains(keys_pressed, "ArrowRight") \/ Contains(keys_pressed, "d")
HeldUp == Contains(keys_pressed, "ArrowUp") \/ Contains(keys_pressed, "w")
HeldDown == Contains(keys_pressed, "ArrowDown") \/ Contains(keys_pressed, "s")

\* C13: in every reachable state the player position satisfies
\* 0 <= x <= 750 and 0 <= y <= 550, whatever movement keys are held.
C13_PlayerInPlayfield ==
    /\ 0 <= player.x /\ player.x <= 750
    /\ 0 <= player.y /\ player.y <= 550

\* C13 witness: a tick with a key held that would have moved the player out
\* of the playfield (left at x = 0, or down at y = 550) left it on the edge.
C13_Witness ==
    /\ obs.ran
    /\ \/ (HeldLeft /\ ~HeldRight /\ obs.pre_player.x = 0 /\ player.x = 0)
       \/ (HeldDown /\ ~HeldUp /\ obs.pre_player.y = 550 /\ player.y = 550)

\* C14: with two opposing movement keys (left and right, or up and down) both
\* held during a tick, the player's coordinate on that axis is the same after
\* the tick as before it, at every reachable position including the edges.
C14_OpposingKeysCancel ==
    [][TickStep =>
         /\ (HeldLeft /\ HeldRight) => player'.x = player.x
         /\ (HeldUp /\ HeldDown) => player'.y = player.y]_vars

\* C15: firing is edge-triggered: every key_down for a fire key (" " or
\* "Space") appends exactly one bullet, no other key event changes the
\* bullets, and no tick adds a bullet, however long the fire key stays held.
C15_FireOnKeyDownOnly ==
    [][ /\ (obs'.op = "key_down" /\ obs'.key \in {" ", "Space"})
            => bullets' = Append(bullets, [x |-> player.x + 20, y |-> player.y])
        /\ (obs'.op = "key_down" /\ obs'.key \notin {" ", "Space"})
            => bullets' = bullets
        /\ obs'.op = "key_up" => bullets' = bullets
        /\ TickStep
            => /\ Len(bullets') <= Len(bullets)
               /\ \A b \in Range(bullets') :
                      \E c \in Range(bullets) : b = [c EXCEPT !.y = @ - 7] ]_vars

\* C15 witness: key_down for the fire key while it was already held, after a
\* tick that ran with it held, added the second bullet.
C15_Witness ==
    /\ obs.op = "key_down"
    /\ obs.key = " "
    /\ obs.held
    /\ frame_count >= 1
    /\ Len(bullets) = 2

\* C16: keys_pressed never contains the same key twice, after any sequence of
\* key_down, key_up, ticks and resets.
C16_NoDuplicateKeys ==
    \A i, j \in 1..Len(keys_pressed) : i # j => keys_pressed[i] # keys_pressed[j]

\* C16 witness: key_down for a key that was already held, another key being
\* held as well.
C16_Witness ==
    /\ obs.op = "key_down"
    /\ obs.held
    /\ Len(keys_pressed) >= 2

\* the game fields other than the held set
OtherFields == <<player, bullets, enemies, last_enemy_spawn, last_frame_time, score,
                 lives, state, pending, panicked>>

\* C17: key_up for a key that is not held raises no error and leaves the held
\* set and all other game state unchanged; key_up for a held key removes
\* exactly that key.
C17_KeyUp ==
    [][obs'.op = "key_up" =>
         LET unlike(k) == k # obs'.key
         IN  /\ ~panicked'
             /\ UNCHANGED OtherFields
             /\ IF Contains(keys_pressed, obs'.key)
                THEN /\ Len(keys_pressed') = Len(keys_pressed) - 1
                     /\ keys_pressed' = SelectSeq(keys_pressed, unlike)
                ELSE keys_pressed' = keys_pressed]_vars

\* C17 witness: key_up for a key that was not held, other keys being held.
C17_Witness ==
    /\ obs.op = "key_up"
    /\ ~obs.held
    /\ keys_pressed # <<>>

\* C18: an enemy that, at the collision step of a tick, overlaps both a bullet
\* and the player is removed, adds 1 to score and subtracts 1 from lives
\* (floored at 0) in that same tick: with such an enemy the tick leaves none
\* of them in the list, score grown by 1 for each enemy overlapping a bullet
\* and lives lowered by 1 for each enemy overlapping the player.
C18_ShotAndTouching ==
    [][(TickStep /\ obs'.enemies_to_remove \cap obs'.enemies_to_remove_on_collision # {})
          => /\ \A e \in obs'.enemies_to_remove \cap obs'.enemies_to_remove_on_collision :
                    obs'.pre_enemies[e + 1] \notin Range(enemies')
             /\ score' = score + Cardinality(obs'.enemies_to_remove)
             /\ lives' = IF lives >= Cardinality(obs'.enemies_to_remove_on_collision)
                         THEN lives - Cardinality(obs'.enemies_to_remove_on_collision)
                         ELSE 0]_vars

\* C19: with no collisions every fire key_down adds one bullet (N events, N
\* bullets); each tick lowers every bullet's y by exactly 7, leaves its x
\* unchanged and removes exactly the bullets whose y became < 0; and while
\* ticks keep running, whenever bullets are in flight a later tick removes
\* one (the oldest leaves first, so every bullet is eventually removed).
C19_BulletsFlyAndLeave ==
    /\ [][ /\ (obs'.op = "key_down" /\ obs'.key \in {" ", "Space"})
               => Len(bullets') = Len(bullets) + 1
           /\ (TickStep /\ obs'.pairs = {})
               => LET moved == [i \in 1..Len(bullets) |->
                                   [x |-> bullets[i].x, y |-> bullets[i].y - 7]]
                      inside(b) == ~(b.y < 0)
                  IN  bullets' = SelectSeq(moved, inside) ]_vars
    /\ (bullets # <<>>) ~> (obs.ran /\ obs.culled_bullets > 0)

\* C19 witness: a tick removed the older of two bullets in flight and moved
\* the other.
C19_Witness ==
    /\ obs.ran
    /\ obs.culled_bullets = 1
    /\ Len(bullets) = 1

\* C20: culling runs after the position update and before collision
\* resolution: the lists check_collisions works on hold no bullet with y < 0
\* and no enemy with y > 600, so a tick that culled every bullet leaves score
\* as it was and one that culled every enemy leaves score and lives as they
\* were; and in every reachable state all bullets have y >= 0 and all enemies
\* have 0 <= y <= 600.
C20_CulledBeforeCollisions ==
    /\ [](/\ \A b \in Range(bullets) : b.y >= 0
          /\ \A e \in Range(enemies) : 0 <= e.y /\ e.y <= 600
          /\ \A b \in Range(obs.pre_bullets) : b.y >= 0
          /\ \A e \in Range(obs.pre_enemies) : e.y <= 600)
    /\ [][ /\ (TickStep /\ obs'.culled_bullets = Len(bullets)) => score' = score
           /\ (TickStep /\ obs'.culled_enemies = Len(enemies) + obs'.spawned)
                 => (score' = score /\ lives' = lives) ]_vars

\* C20 witness: a tick culled a bullet fired at the top edge while the enemy
\* spawned by that tick sat where the bullet, left in the list, would have
\* overlapped it; the score is unchanged.
C20_Witness ==
    /\ obs.ran
    /\ obs.culled_bullets = 1
    /\ obs.spawned = 1
    /\ \E e \in Range(obs.pre_enemies) :
           BulletHitsEnemy([x |-> obs.pre_player.x + 20, y |-> 0 - 7], e)
    /\ score = 0

\* C21: score never decreases between resets: a handler that is neither a
\* tick nor reset_game (a key event, an idle frame callback) leaves it as it
\* is, a tick adds one point for each bullet-enemy hit of its collision step
\* (each overlapping pair, as check_collisions counts them) and nothing else,
\* and only reset_game sets it back to 0.
C21_ScoreMonotone ==
    [][ /\ ~ResetStep => score' >= score
        /\ (~ResetStep /\ ~TickStep) => score' = score
        /\ TickStep => score' = score + Cardinality(obs'.pairs)
        /\ ResetStep => score' = 0 ]_vars

\* C21 witness: a tick that completed has added the points of its hits to a
\* score that was already above 0.
C21_Witness ==
    /\ obs.ran
    /\ ~panicked
    /\ obs.pairs # {}
    /\ score > Cardinality(obs.pairs)

\* C22: a tick whose collision step finds the enemy list empty leaves score,
\* lives and the state (Playing) as they were, and so does every key event;
\* so over any sequence of such ticks and key events the three keep their
\* values.
C22_NoEnemiesNoChange ==
    [][ /\ (TickStep /\ obs'.pre_enemies = <<>>)
            => (score' = score /\ lives' = lives /\ state' = "Playing")
        /\ (~TickStep /\ ~ResetStep)
            => (score' = score /\ lives' = lives /\ state' = state) ]_vars

\* C22 witness: a second tick in a row with bullets in flight and with no
\* enemy in the list it checked collisions on.
C22_Witness ==
    /\ obs.ran
    /\ ~obs.first
    /\ obs.pre_enemies = <<>>
    /\ enemies = <<>>
    /\ obs.pre_bullets # <<>>
    /\ state = "Playing"

\* C23: in every state left by a completed key event, tick or reset (every
\* state but those a handler left by panicking), the state is GameOver if and
\* only if lives is 0.
C23_GameOverIffNoLives ==
    ~panicked => (state = "GameOver" <=> lives = 0)

\* C23 witness: a tick that completed has just brought lives to 0 and set
\* GameOver.
C23_Witness ==
    /\ obs.ran
    /\ ~panicked
    /\ lives = 0
    /\ state = "GameOver"

\* the enemies of the last collision step that overlap the player's box
OnPlayer ==
    {i \in 1..Len(obs.pre_enemies) :
        /\ player.x < obs.pre_enemies[i].x + 50
        /\ player.x + 50 > obs.pre_enemies[i].x
        /\ player.y < obs.pre_enemies[i].y + 50
        /\ player.y + 50 > obs.pre_enemies[i].y}

\* C25: in one tick lives decreases by exactly the number k of enemies
\* overlapping the player's box at the collision step, floored at 0; lives
\* never increases except by reset_game and never exceeds 3.
C25_LivesFloorAtZero ==
    /\ [](lives <= 3)
    /\ [][ /\ TickStep
               => LET k == Cardinality(OnPlayer')
                  IN  lives' = IF lives - k > 0 THEN lives - k ELSE 0
           /\ ~TickStep => (lives' = lives \/ (ResetStep /\ lives' = 3)) ]_vars

\* C25 witness: a tick with two enemies on the player and one life left has
\* put lives at 0.
C25_Witness ==
    /\ obs.ran
    /\ Cardinality(OnPlayer) = 2
    /\ lives = 0
    /\ frame_count = 1

C26_OneStepPerDirection ==
    [][TickStep =>
         /\ player'.x - player.x \in {-5, 0, 5}
         /\ player'.y - player.y \in {-5, 0, 5}
         /\ (HeldLeft /\ ~HeldRight /\ player.x >= 5) => player'.x = player.x - 5
         /\ (HeldRight /\ ~HeldLeft /\ player.x <= 745) => player'.x = player.x + 5
         /\ (HeldUp /\ ~HeldDown /\ player.y >= 5) => player'.y = player.y - 5
         /\ (HeldDown /\ ~HeldUp /\ player.y <= 545) => player'.y = player.y + 5]_vars

\* C26 witness: a tick with both "ArrowLeft" and "a" held has moved the player
\* 5 to the left.
C26_Witness ==
    /\ obs.ran
    /\ Contains(keys_pressed, "ArrowLeft")
    /\ Contains(keys_pressed, "a")
    /\ obs.pre_player.x = 300
    /\ player.x = 295

====
